---- MODULE Spec2Model ----
(***************************************************************************)
(* GLMEstimatorSummary (src/pkg/src/lens/glm_estimator.py): a dataclass    *)
(* with ten fields, show() and save().  Callers (threads) invoke show()    *)
(* and save() on shared instances; save() is modelled step by step (the    *)
(* assert, the reading of the clock, the store of created_time, the        *)
(* evaluation of show(), the call of requests.put, its return or raise,    *)
(* the two writes of print), so that calls of several callers interleave.  *)
(***************************************************************************)
EXTENDS Integers, Sequences, FiniteSets, TLC

VARIABLES
    inst,       \* inst[i]: the __dict__ of instance i, a sequence of <<key, value>>
    inst0,      \* inst0[i]: the __dict__ of instance i right after construction
    optimize,   \* the interpreter runs with -O: assert statements are compiled out
    now,        \* the reading datetime.now(timezone.utc) would give
    pc,         \* pc[t]: where caller t is: "idle", or inside save() at "stamp", "store",
                \* "show", "put", "await", "print", "newline"
    target,     \* target[t]: the instance of t's current or last call
    op,         \* op[t]: the method of t's current or last call: "none", "show", "save"
    ncall,      \* ncall[t]: the number of calls t has started
    result,     \* result[t]: how t's last call ended: "none", "returned", "AssertionError", "ConnectionError"
    shown,      \* shown[t]: the mapping t's last show() returned
    stampAt,    \* stampAt[t]: the clock reading t's save() took, until its body is built
    body,       \* body[t]: the show() view t's save() has built for requests.put
    resp,       \* resp[t]: the response t's requests.put returned, until save() returns
    lastStamp,  \* lastStamp[i]: the call that last wrote created_time of instance i
    wire,       \* the calls of requests.put, in order
    stdout      \* the writes to sys.stdout, in order

vars == <<inst, inst0, optimize, now, pc, target, op, ncall, result, shown, stampAt,
          body, resp, lastStamp, wire, stdout>>

-----------------------------------------------------------------------------
(* Bounds *)

MaxCalls == 2
MaxClock == 1

Threads == {"A", "B"}
Insts == {"x", "y"}

\* The instances a caller holds: both callers share x, and B has y to itself
Uses(t) == IF t = "A" THEN {"x"} ELSE {"x", "y"}

\* The instance both callers hold
Shared == "x"

-----------------------------------------------------------------------------
(* Python values: str, float (in hundredths) and list, each with its type *)

Str(s) == [t |-> "str", v |-> s]
Num(n) == [t |-> "num", v |-> n]
List(l) == [t |-> "list", v |-> l]

\* bool(v) for the types of the fields
Truthy(v) ==
    CASE v.t = "str" -> v.v # ""
      [] v.t = "num" -> v.v # 0
      [] v.t = "list" -> Len(v.v) # 0

\* The field names, as sequences of characters, in declaration order
FieldNames ==
    << <<"n","a","m","e">>,
       <<"d","e","s","c">>,
       <<"t","a","r","g","e","t">>,
       <<"p","r","e","d","i","c","t","i","o","n">>,
       <<"v","a","r","_","w","e","i","g","h","t","s">>,
       <<"l","i","n","k","_","f","u","n","c","t","i","o","n">>,
       <<"e","r","r","o","r","_","d","i","s","t">>,
       <<"e","x","p","l","a","i","n","e","d","_","v","a","r","i","a","n","c","e">>,
       <<"f","e","a","t","u","r","e","_","s","u","m","m","a","r","y">>,
       <<"c","r","e","a","t","e","d","_","t","i","m","e">> >>

CreatedTime == FieldNames[Len(FieldNames)]

\* The default of created_time
Sentinel == "2000-00-00T00:00:00.0000+0000"

URL == "http://api.lensview.io/modelsummary/regression"

\* One FeatureSummary entry
OneFeature ==
    [name |-> "age",
     data |-> [bin_edge_right |-> <<10, 20>>, sum_target |-> <<3, 4>>,
               sum_prediction |-> <<3, 5>>, sum_weight |-> <<1, 1>>,
               wtd_avg_prediction |-> <<3, 5>>, wtd_avg_target |-> <<3, 4>>]]

\* A populated and an unset (falsy) value for each field
Populated ==
    << Str("glm"), Str("claims model"), Str("loss"), Str("pred"), Str("exposure"),
       Str("log"), Str("poisson"), Num(85), List(<<OneFeature>>), Str(Sentinel) >>

Unset ==
    << Str(""), Str(""), Str(""), Str(""), Str(""),
       Str(""), Str(""), Num(0), List(<< >>), Str("") >>

-----------------------------------------------------------------------------
(* The instance's __dict__: an insertion-ordered mapping *)

Keys(d) == [j \in 1..Len(d) |-> d[j][1]]

HasKey(d, k) == \E j \in 1..Len(d) : d[j][1] = k

Get(d, k) == d[CHOOSE j \in 1..Len(d) : d[j][1] = k][2]

\* self.<k> = v: an existing key keeps its place, a new one goes last
SetAttr(d, k, v) ==
    IF HasKey(d, k)
    THEN [j \in 1..Len(d) |-> IF d[j][1] = k THEN <<k, v>> ELSE d[j]]
    ELSE Append(d, <<k, v>>)

\* The generated __init__: one assignment per field, in declaration order;
\* unset is the set of the fields given a falsy value
Construct(unset) ==
    [j \in 1..Len(FieldNames) |->
        <<FieldNames[j], IF j \in unset THEN Unset[j] ELSE Populated[j]>>]

\* "__" in k
HasDunder(k) == \E j \in 1..(Len(k) - 1) : k[j] = "_" /\ k[j + 1] = "_"

NoDunder(kv) == ~HasDunder(kv[1])

\* Variant of show: every key with an underscore is taken for internal
HasUnderscore(kv) == \E j \in 1..Len(kv[1]) : kv[1][j] = "_"

NotUnderscored(kv) == ~HasUnderscore(kv)

showNoUnderscore(d) == SelectSeq(d, NotUnderscored)

\* show(): {k: v for k, v in self.__dict__.items() if "__" not in k}
show(d) == SelectSeq(d, NoDunder)

\* all(self.__dict__.values())
AllSet(d) == \A j \in 1..Len(d) : Truthy(d[j][2])

\* str(datetime.now(timezone.utc)) at clock reading n, in microseconds after
\* 2021-06-01 12:00:00 UTC (n < 10): the fraction is left out when it is zero
Digits == <<"0", "1", "2", "3", "4", "5", "6", "7", "8", "9">>

TimeStr(n) ==
    IF n = 0
    THEN "2021-06-01 12:00:00+00:00"
    ELSE "2021-06-01 12:00:00.00000" \o Digits[n + 1] \o "+00:00"

\* Variant of Report: an empty body is reported as a failure too
ReportFalsy(text) ==
    IF text # "error" /\ text # ""
    THEN "model summary saved at " \o text
    ELSE "error saving model summary"

\* The text save() prints for a response body
Report(text) ==
    IF text # "error"
    THEN "model summary saved at " \o text
    ELSE "error saving model summary"

\* The response bodies the transport may return: the one that reports a
\* failure, an identifier, the empty body, and a page that holds the word
\* without being it
Bodies == {"error", "abc123", "", "<html>error</html>"}

\* One body for each branch of the test response.text != "error"
BranchBodies == {"error", "abc123"}

NoResp == [got |-> FALSE, text |-> ""]

\* No body built
NoBody == [built |-> FALSE]

\* No save() has written created_time yet
NoStamp == [by |-> "none", call |-> 0, clock |-> 0]

-----------------------------------------------------------------------------
(* Initial state *)

\* The sets of fields a constructed instance may hold falsy
UnsetChoices == {{}} \cup {{j} : j \in 1..Len(FieldNames)} \cup {{1, 8}}

\* The interpreter mode and the arguments of the instance: any of the choices
\* under the default mode, and explained_variance = 0.0 under -O
Setups == {<<FALSE, u, u>> : u \in UnsetChoices} \cup {<<TRUE, {8}, {}>>}

Init ==
    /\ \E u \in Setups :
          /\ optimize = u[1]
          /\ inst = [i \in Insts |-> IF i = "x" THEN Construct(u[2]) ELSE Construct(u[3])]
    /\ inst0 = inst
    /\ now = 0
    /\ pc = [t \in Threads |-> "idle"]
    /\ target = [t \in Threads |-> "x"]
    /\ op = [t \in Threads |-> "none"]
    /\ ncall = [t \in Threads |-> 0]
    /\ result = [t \in Threads |-> "none"]
    /\ shown = [t \in Threads |-> << >>]
    /\ stampAt = [t \in Threads |-> 0]
    /\ body = [t \in Threads |-> NoBody]
    /\ resp = [t \in Threads |-> NoResp]
    /\ lastStamp = [i \in Insts |-> NoStamp]
    /\ wire = << >>
    /\ stdout = << >>

-----------------------------------------------------------------------------
(* Actions *)

RECURSIVE Sum(_, _)
Sum(f, S) == IF S = {} THEN 0 ELSE LET t == CHOOSE u \in S : TRUE IN f[t] + Sum(f, S \ {t})

MayCall(t) == pc[t] = "idle" /\ Sum(ncall, Threads) < MaxCalls

\* Variant of ShowCall: show() refreshes created_time
ShowCallTouch(t, i) ==
    /\ MayCall(t)
    /\ target' = [target EXCEPT ![t] = i]
    /\ op' = [op EXCEPT ![t] = "show"]
    /\ ncall' = [ncall EXCEPT ![t] = @ + 1]
    /\ inst' = [inst EXCEPT ![i] = SetAttr(@, CreatedTime, Str(TimeStr(now)))]
    /\ shown' = [shown EXCEPT ![t] = show(inst'[i])]
    /\ result' = [result EXCEPT ![t] = "returned"]
    /\ UNCHANGED <<inst0, optimize, now, pc, stampAt, body, resp, lastStamp, wire, stdout>>

\* Caller t calls show() on instance i
ShowCall(t, i) ==
    /\ MayCall(t)
    /\ target' = [target EXCEPT ![t] = i]
    /\ op' = [op EXCEPT ![t] = "show"]
    /\ ncall' = [ncall EXCEPT ![t] = @ + 1]
    /\ shown' = [shown EXCEPT ![t] = show(inst[i])]
    /\ result' = [result EXCEPT ![t] = "returned"]
    /\ UNCHANGED <<inst, inst0, optimize, now, pc, stampAt, body, resp, lastStamp, wire, stdout>>

\* Variant of SaveCall: an instance whose created_time is no longer the
\* default counts as saved, and save() refuses it
SaveCallOnce(t, i) ==
    /\ MayCall(t)
    /\ target' = [target EXCEPT ![t] = i]
    /\ op' = [op EXCEPT ![t] = "save"]
    /\ ncall' = [ncall EXCEPT ![t] = @ + 1]
    /\ IF (optimize \/ AllSet(inst[i])) /\ Get(inst[i], CreatedTime) = Str(Sentinel)
       THEN /\ pc' = [pc EXCEPT ![t] = "stamp"]
            /\ result' = [result EXCEPT ![t] = "none"]
       ELSE /\ pc' = pc
            /\ result' = [result EXCEPT ![t] = "AssertionError"]
    /\ UNCHANGED <<inst, inst0, optimize, now, shown, stampAt, body, resp, lastStamp, wire, stdout>>

\* Caller t calls save() on instance i: the assert statement, which the
\* interpreter leaves out under -O
SaveCall(t, i) ==
    /\ MayCall(t)
    /\ target' = [target EXCEPT ![t] = i]
    /\ op' = [op EXCEPT ![t] = "save"]
    /\ ncall' = [ncall EXCEPT ![t] = @ + 1]
    /\ IF optimize \/ AllSet(inst[i])
       THEN /\ pc' = [pc EXCEPT ![t] = "stamp"]
            /\ result' = [result EXCEPT ![t] = "none"]
       ELSE /\ pc' = pc
            /\ result' = [result EXCEPT ![t] = "AssertionError"]
    /\ UNCHANGED <<inst, inst0, optimize, now, shown, stampAt, body, resp, lastStamp, wire, stdout>>

\* Variant of SaveNow: a save() waits while another save() of the same
\* instance is between its reading of the clock and its return
SaveNowLocked(t) ==
    /\ pc[t] = "stamp"
    /\ \A u \in Threads \ {t} : pc[u] \in {"idle", "stamp"} \/ target[u] # target[t]
    /\ stampAt' = [stampAt EXCEPT ![t] = now]
    /\ pc' = [pc EXCEPT ![t] = "store"]
    /\ UNCHANGED <<inst, inst0, optimize, now, target, op, ncall, result, shown, body, resp,
                   lastStamp, wire, stdout>>

\* str(datetime.now(timezone.utc)): the right-hand side of the assignment
SaveNow(t) ==
    /\ pc[t] = "stamp"
    /\ stampAt' = [stampAt EXCEPT ![t] = now]
    /\ pc' = [pc EXCEPT ![t] = "store"]
    /\ UNCHANGED <<inst, inst0, optimize, now, target, op, ncall, result, shown, body, resp,
                   lastStamp, wire, stdout>>

\* Variant of SaveStamp: the stamp is kept in a local and never reaches the instance
SaveStampLocal(t) ==
    /\ pc[t] = "store"
    /\ lastStamp' = [lastStamp EXCEPT ![target[t]] =
                        [by |-> t, call |-> ncall[t], clock |-> stampAt[t]]]
    /\ pc' = [pc EXCEPT ![t] = "show"]
    /\ UNCHANGED <<inst, inst0, optimize, now, target, op, ncall, result, shown, stampAt, body,
                   resp, wire, stdout>>

\* self.created_time = ...: the store of the string built from the reading
SaveStamp(t) ==
    /\ pc[t] = "store"
    /\ inst' = [inst EXCEPT ![target[t]] = SetAttr(@, CreatedTime, Str(TimeStr(stampAt[t])))]
    /\ lastStamp' = [lastStamp EXCEPT ![target[t]] =
                        [by |-> t, call |-> ncall[t], clock |-> stampAt[t]]]
    /\ pc' = [pc EXCEPT ![t] = "show"]
    /\ UNCHANGED <<inst0, optimize, now, target, op, ncall, result, shown, stampAt, body,
                   resp, wire, stdout>>

\* Variant of SaveShow: the body is the view taken before the stamping
SaveShowStale(t) ==
    /\ pc[t] = "show"
    /\ body' = [body EXCEPT ![t] = [built |-> TRUE, json |-> show(inst0[target[t]]),
                                    clock |-> stampAt[t], writer |-> lastStamp[target[t]]]]
    /\ stampAt' = [stampAt EXCEPT ![t] = 0]
    /\ pc' = [pc EXCEPT ![t] = "put"]
    /\ UNCHANGED <<inst, inst0, optimize, now, target, op, ncall, result, shown, resp,
                   lastStamp, wire, stdout>>

\* json=self.show(): the argument of requests.put is evaluated
SaveShow(t) ==
    /\ pc[t] = "show"
    /\ body' = [body EXCEPT ![t] = [built |-> TRUE, json |-> show(inst[target[t]]),
                                    clock |-> stampAt[t], writer |-> lastStamp[target[t]]]]
    /\ stampAt' = [stampAt EXCEPT ![t] = 0]
    /\ pc' = [pc EXCEPT ![t] = "put"]
    /\ UNCHANGED <<inst, inst0, optimize, now, target, op, ncall, result, shown, resp,
                   lastStamp, wire, stdout>>

\* requests.put(url, json=...): the call is made with the body built before
SavePut(t) ==
    /\ pc[t] = "put"
    /\ wire' = Append(wire, [url |-> URL, json |-> body[t].json,
                             by |-> t, call |-> ncall[t], inst |-> target[t],
                             clock |-> body[t].clock, writer |-> body[t].writer])
    /\ body' = [body EXCEPT ![t] = NoBody]
    /\ pc' = [pc EXCEPT ![t] = "await"]
    /\ UNCHANGED <<inst, inst0, optimize, now, target, op, ncall, result, shown, stampAt, resp,
                   lastStamp, stdout>>

\* requests.put returns a response with the given text
PutReturns(t, text) ==
    /\ pc[t] = "await"
    /\ resp' = [resp EXCEPT ![t] = [got |-> TRUE, text |-> text]]
    /\ pc' = [pc EXCEPT ![t] = "print"]
    /\ UNCHANGED <<inst, inst0, optimize, now, target, op, ncall, result, shown, stampAt, body,
                   lastStamp, wire, stdout>>

\* Variant of PutRaises: save() catches the failure, prints the failure line
\* and returns
PutRaisesHandled(t) ==
    /\ pc[t] = "await"
    /\ stdout' = stdout \o << [by |-> t, call |-> ncall[t], text |-> "error", s |-> Report("error")],
                              [by |-> t, call |-> ncall[t], text |-> "error", s |-> "\n"] >>
    /\ result' = [result EXCEPT ![t] = "returned"]
    /\ pc' = [pc EXCEPT ![t] = "idle"]
    /\ UNCHANGED <<inst, inst0, optimize, now, target, op, ncall, shown, stampAt, body, resp,
                   lastStamp, wire>>

\* requests.put raises a connectivity failure: save() has no handler
PutRaises(t) ==
    /\ pc[t] = "await"
    /\ result' = [result EXCEPT ![t] = "ConnectionError"]
    /\ pc' = [pc EXCEPT ![t] = "idle"]
    /\ UNCHANGED <<inst, inst0, optimize, now, target, op, ncall, shown, stampAt, body, resp,
                   lastStamp, wire, stdout>>

\* if response.text != "error": print(...) else: print(...): print's first
\* write to sys.stdout, the text
SavePrint(t) ==
    /\ pc[t] = "print"
    /\ stdout' = Append(stdout, [by |-> t, call |-> ncall[t], text |-> resp[t].text,
                                 s |-> Report(resp[t].text)])
    /\ pc' = [pc EXCEPT ![t] = "newline"]
    /\ UNCHANGED <<inst, inst0, optimize, now, target, op, ncall, result, shown, stampAt, body,
                   resp, lastStamp, wire>>

\* print's second write to sys.stdout, the end of line; save() returns
SavePrintEnd(t) ==
    /\ pc[t] = "newline"
    /\ stdout' = Append(stdout, [by |-> t, call |-> ncall[t], text |-> resp[t].text,
                                 s |-> "\n"])
    /\ resp' = [resp EXCEPT ![t] = NoResp]
    /\ result' = [result EXCEPT ![t] = "returned"]
    /\ pc' = [pc EXCEPT ![t] = "idle"]
    /\ UNCHANGED <<inst, inst0, optimize, now, target, op, ncall, shown, stampAt, body,
                   lastStamp, wire>>

\* Time passes.  Only SaveNow reads the clock, so it is enough to let the
\* clock advance while a caller is about to read it
Tick ==
    /\ now < MaxClock
    /\ \E t \in Threads : pc[t] = "stamp"
    /\ now' = now + 1
    /\ UNCHANGED <<inst, inst0, optimize, pc, target, op, ncall, result, shown, stampAt, body,
                   resp, lastStamp, wire, stdout>>

\* The two callers run show() and save() concurrently on the instance they
\* share; the transport answers with a body of either kind
Next ==
    \/ \E t \in Threads : ShowCall(t, Shared)
    \/ \E t \in Threads : SaveCall(t, Shared)
    \/ \E t \in Threads : SaveNow(t)
    \/ \E t \in Threads : SaveStamp(t)
    \/ \E t \in Threads : SaveShow(t)
    \/ \E t \in Threads : SavePut(t)
    \/ \E t \in Threads, text \in BranchBodies : PutReturns(t, text)
    \/ \E t \in Threads : PutRaises(t)
    \/ \E t \in Threads : SavePrint(t)
    \/ \E t \in Threads : SavePrintEnd(t)
    \/ Tick

Spec == Init /\ [][Next]_vars

\* One call at a time: a caller starts or continues a call only while every
\* other caller is idle (the single-threaded use the module is written for);
\* the transport answers with any of the bodies
Alone(t) == \A u \in Threads \ {t} : pc[u] = "idle"

SeqNext ==
    \/ \E t \in Threads : \E i \in Uses(t) : Alone(t) /\ ShowCall(t, i)
    \/ \E t \in Threads : \E i \in Uses(t) : Alone(t) /\ SaveCall(t, i)
    \/ \E t \in Threads : Alone(t) /\ SaveNow(t)
    \/ \E t \in Threads : Alone(t) /\ SaveStamp(t)
    \/ \E t \in Threads : Alone(t) /\ SaveShow(t)
    \/ \E t \in Threads : Alone(t) /\ SavePut(t)
    \/ \E t \in Threads, text \in Bodies : Alone(t) /\ PutReturns(t, text)
    \/ \E t \in Threads : Alone(t) /\ PutRaises(t)
    \/ \E t \in Threads : Alone(t) /\ SavePrint(t)
    \/ \E t \in Threads : Alone(t) /\ SavePrintEnd(t)
    \/ Tick

SeqSpec == Init /\ [][SeqNext]_vars

\* The initial states in which every instance is fully populated
SavesInit == Init /\ \A i \in Insts : AllSet(inst[i])

\* The two callers run save() concurrently on fully populated instances, the
\* same one or two different ones
SavesNext ==
    \/ \E t \in Threads : \E i \in Uses(t) : SaveCall(t, i)
    \/ \E t \in Threads : SaveNow(t)
    \/ \E t \in Threads : SaveStamp(t)
    \/ \E t \in Threads : SaveShow(t)
    \/ \E t \in Threads : SavePut(t)
    \/ \E t \in Threads, text \in BranchBodies : PutReturns(t, text)
    \/ \E t \in Threads : PutRaises(t)
    \/ \E t \in Threads : SavePrint(t)
    \/ \E t \in Threads : SavePrintEnd(t)
    \/ Tick

SavesSpec == SavesInit /\ [][SavesNext]_vars

-----------------------------------------------------------------------------
(* Vocabulary of the properties *)

\* The requests call c of caller t has issued, as positions of wire
PutIdx(t, c) == {k \in 1..Len(wire) : wire[k].by = t /\ wire[k].call = c}

\* The writes call c of caller t has made to sys.stdout, as positions of stdout
OutIdx(t, c) == {k \in 1..Len(stdout) : stdout[k].by = t /\ stdout[k].call = c}

\* Some field of the mapping holds an empty string, a zero or an empty sequence
HoldsFalsy(d) == \E j \in 1..Len(d) : d[j][2] \in {Str(""), Num(0), List(<< >>)}

\* The step is caller t's call of show()
ShowStep(t) == op'[t] = "show" /\ ncall'[t] = ncall[t] + 1

\* Caller t's save() has made its requests.put call
PastPut(t) ==
    /\ op[t] = "save"
    /\ \/ pc[t] \in {"await", "print", "newline"}
       \/ pc[t] = "idle" /\ result[t] \in {"returned", "ConnectionError"}

\* The body the request e should carry: the fields as constructed, and the
\* stamp read from the clock by the call that issued e
OwnBody(e) ==
    [j \in 1..Len(FieldNames) |->
        <<FieldNames[j],
          IF j = Len(FieldNames) THEN Str(TimeStr(e.clock)) ELSE inst0[e.inst][j][2]>>]

\* The created_time in the body of request e
BodyStamp(e) == e.json[Len(FieldNames)][2]

-----------------------------------------------------------------------------
(* C1 *)

\* C1: a save() on an instance one of whose fields is falsy (an empty string,
\* a zero such as explained_variance = 0.0, an empty sequence) raises the
\* AssertionError and issues no PUT request.
C1_FalsySaveRaisesWithoutPut ==
    \A t \in Threads :
        (op[t] = "save" /\ HoldsFalsy(inst0[target[t]])) =>
            /\ pc[t] = "idle"
            /\ result[t] = "AssertionError"
            /\ PutIdx(t, ncall[t]) = {}

\* Under -O, a save() of an instance whose explained_variance is 0 has put
\* its request on the wire and returned
C1_Witness ==
    \E t \in Threads :
        /\ op[t] = "save" /\ pc[t] = "idle" /\ result[t] = "returned"
        /\ Get(inst0[target[t]], FieldNames[8]) = Num(0)
        /\ PutIdx(t, ncall[t]) # {}

-----------------------------------------------------------------------------
(* C2 *)

\* C2: with one call running at a time, a save() on an instance whose fields
\* are all truthy does not raise the AssertionError and issues exactly one PUT,
\* to the fixed URL, whose body is the show() view with the fields as they were
\* and created_time the stamp of this call.
C2_OnePutWithStampedView ==
    /\ \A t \in Threads :
          /\ (op[t] = "save" /\ ~HoldsFalsy(inst[target[t]])) => result[t] # "AssertionError"
          /\ PastPut(t) => Cardinality(PutIdx(t, ncall[t])) = 1
          /\ \A c \in 1..MaxCalls + 1 : Cardinality(PutIdx(t, c)) <= 1
    /\ \A k \in 1..Len(wire) :
          /\ wire[k].url = "http://api.lensview.io/modelsummary/regression"
          /\ wire[k].json = OwnBody(wire[k])

\* A save() of a fully populated instance has returned after its one PUT,
\* and the clock had advanced before its stamping
C2_Witness ==
    \E t \in Threads :
        /\ op[t] = "save" /\ pc[t] = "idle" /\ result[t] = "returned"
        /\ ~HoldsFalsy(inst[target[t]])
        /\ \E k \in PutIdx(t, ncall[t]) : BodyStamp(wire[k]) = Str(TimeStr(1))

-----------------------------------------------------------------------------
(* C3 *)

\* C3: once requests.put has returned a response, save() returns normally,
\* and what it prints is decided by the body alone: the failure line if and
\* only if the body is exactly "error", and for every other body (an
\* identifier, a page that holds the word, the empty body) the success line
\* with that body in it; the line is the text and then the end of line.
C3_ResponseDecidesLine ==
    /\ \A t \in Threads :
          /\ resp[t].got <=> pc[t] \in {"print", "newline"}
          /\ pc[t] = "print" => OutIdx(t, ncall[t]) = {}
          /\ pc[t] = "newline" => Cardinality(OutIdx(t, ncall[t])) = 1
          /\ (op[t] = "save" /\ pc[t] = "idle" /\ result[t] = "returned") =>
                \E k \in OutIdx(t, ncall[t]) :
                    /\ OutIdx(t, ncall[t]) = {k, k + 1}
                    /\ stdout[k].s # "\n"
                    /\ stdout[k + 1].s = "\n"
    /\ \A k \in 1..Len(stdout) :
          \/ stdout[k].s = "\n"
          \/ /\ stdout[k].s = "error saving model summary" <=> stdout[k].text = "error"
             /\ stdout[k].text # "error" =>
                   stdout[k].s = "model summary saved at " \o stdout[k].text
             /\ stdout[k].s \in
                   {"error saving model summary", "model summary saved at abc123",
                    "model summary saved at ", "model summary saved at <html>error</html>"}
             /\ op[stdout[k].by] = "save" /\ stdout[k].call = ncall[stdout[k].by] =>
                   result[stdout[k].by] \in {"none", "returned"}

\* Two saves have returned: the body "abc123" was reported as a success with
\* the body in the line, and the page holding the word "error" as a success too
C3_Witness ==
    /\ Len(stdout) = 4
    /\ stdout[1].text = "abc123" /\ stdout[1].s = "model summary saved at abc123"
    /\ stdout[2].s = "\n"
    /\ stdout[3].text = "<html>error</html>"
    /\ stdout[3].s = "model summary saved at <html>error</html>"
    /\ stdout[4].s = "\n"
    /\ \A t \in Threads : pc[t] = "idle"
    /\ \E t \in Threads : op[t] = "save" /\ result[t] = "returned"

-----------------------------------------------------------------------------
(* C4 *)

\* C4 as stated: two save() calls in sequence on the same instance put two
\* different created_time stamps on the wire.
C4_TwoDifferentStamps ==
    \A a, b \in 1..Len(wire) :
        (a < b /\ wire[a].inst = wire[b].inst) => BodyStamp(wire[a]) # BodyStamp(wire[b])

\* C4, amended: two save() calls in sequence on the same fully populated
\* instance issue one PUT each, each body carrying the stamp its own call read
\* from the clock, so that the stamps differ exactly when the clock readings
\* differ; the second call is not refused.
C4_TwoPutsEachItsReading ==
    /\ \A t \in Threads :
          /\ (op[t] = "save" /\ ~HoldsFalsy(inst[target[t]])) => result[t] # "AssertionError"
          /\ PastPut(t) => Cardinality(PutIdx(t, ncall[t])) = 1
    /\ \A a, b \in 1..Len(wire) :
          (a < b /\ wire[a].inst = wire[b].inst) =>
              /\ BodyStamp(wire[a]) = Str(TimeStr(wire[a].clock))
              /\ BodyStamp(wire[b]) = Str(TimeStr(wire[b].clock))
              /\ <<wire[a].by, wire[a].call>> # <<wire[b].by, wire[b].call>>
              /\ (BodyStamp(wire[a]) # BodyStamp(wire[b])) <=> (wire[a].clock # wire[b].clock)

\* Two saves of the same fully populated instance, one after the other, have
\* both returned, and their bodies carry the same stamp
C4_Witness ==
    /\ Len(wire) = 2
    /\ wire[1].inst = wire[2].inst
    /\ ~HoldsFalsy(inst[wire[1].inst])
    /\ BodyStamp(wire[1]) = BodyStamp(wire[2])
    /\ \A t \in Threads : pc[t] = "idle"
    /\ \E t \in Threads : op[t] = "save" /\ result[t] = "returned"

-----------------------------------------------------------------------------
(* C5 *)

\* The next step of caller t's save() can be taken
CanStep(t) ==
    /\ pc[t] = "stamp" => ENABLED SaveNow(t)
    /\ pc[t] = "store" => ENABLED SaveStamp(t)
    /\ pc[t] = "show" => ENABLED SaveShow(t)
    /\ pc[t] = "put" => ENABLED SavePut(t)
    /\ pc[t] = "await" => (ENABLED PutRaises(t)) /\ \A text \in Bodies : ENABLED PutReturns(t, text)
    /\ pc[t] = "print" => ENABLED SavePrint(t)
    /\ pc[t] = "newline" => ENABLED SavePrintEnd(t)

\* C5: when callers run save() concurrently on fully populated instances, the
\* same one or two different ones, in every interleaving each call issues one
\* PUT of its own, for the instance it was called on, and no call waits
\* for another or fails because of it: whatever the other callers are doing,
\* the next step of a call under way can be taken, up to its end.
C5_ConcurrentSavesIndependent ==
    \A t \in Threads :
        /\ CanStep(t)
        /\ pc[t] # "idle" => op[t] = "save" /\ result[t] = "none"
        /\ (op[t] = "save" /\ ~HoldsFalsy(inst[target[t]])) => result[t] # "AssertionError"
        /\ PastPut(t) =>
              /\ Cardinality(PutIdx(t, ncall[t])) = 1
              /\ \A k \in PutIdx(t, ncall[t]) : wire[k].inst = target[t]
        /\ (op[t] = "save" /\ pc[t] \in {"stamp", "store", "show", "put"}) =>
              PutIdx(t, ncall[t]) = {}

\* Two saves of two different fully populated instances are under way at
\* once, each with its PUT issued
C5_Witness ==
    /\ pc["A"] = "await" /\ pc["B"] = "print"
    /\ target["A"] = "x" /\ target["B"] = "y"
    /\ ~HoldsFalsy(inst["x"]) /\ ~HoldsFalsy(inst["y"])
    /\ Cardinality(PutIdx("A", ncall["A"])) = 1
    /\ Cardinality(PutIdx("B", ncall["B"])) = 1

-----------------------------------------------------------------------------
(* C6 *)

\* C6: in any state, a call of show() returns, changes no field of any
\* instance, issues no request and prints nothing.
C6_ShowIsPure ==
    [][\A t \in Threads :
          ShowStep(t) =>
              /\ result'[t] = "returned" /\ pc'[t] = "idle"
              /\ inst' = inst
              /\ wire' = wire
              /\ stdout' = stdout]_vars

\* show() has returned on an instance a save() had stamped before
C6_Witness ==
    \E t \in Threads :
        /\ op[t] = "show" /\ result[t] = "returned"
        /\ inst[target[t]] # inst0[target[t]]
        /\ shown[t] = inst[target[t]]

-----------------------------------------------------------------------------
(* C7 *)

\* C7: show() on any instance, fields falsy or not, returns the ten declared
\* fields in declaration order, each with the field's current value.
C7_ShowReturnsDeclaredFields ==
    [][\A t \in Threads :
          ShowStep(t) =>
              /\ Keys(shown'[t]) = FieldNames
              /\ \A j \in 1..Len(FieldNames) : shown'[t][j][2] = inst[target'[t]][j][2]]_vars

\* show() has returned the ten fields of an instance whose explained_variance is 0
C7_Witness ==
    \E t \in Threads :
        /\ op[t] = "show" /\ result[t] = "returned"
        /\ Len(shown[t]) = 10
        /\ shown[t][8] = <<FieldNames[8], Num(0)>>

-----------------------------------------------------------------------------
(* C8 *)

\* C8: when requests.put raises, save() ends with that failure: it prints
\* nothing and issues no further request.
C8_TransportFailurePropagates ==
    /\ [](\A t \in Threads :
            result[t] = "ConnectionError" =>
                /\ pc[t] = "idle"
                /\ Cardinality(PutIdx(t, ncall[t])) = 1
                /\ OutIdx(t, ncall[t]) = {})
    /\ [][\A t \in Threads :
            (pc[t] = "await" /\ pc'[t] # "await" /\ ~resp'[t].got) =>
                /\ result'[t] = "ConnectionError"
                /\ pc'[t] = "idle"
                /\ wire' = wire
                /\ stdout' = stdout]_vars

\* A save() has ended with the transport's failure
C8_Witness ==
    \E t \in Threads :
        /\ op[t] = "save" /\ pc[t] = "idle" /\ result[t] = "ConnectionError"
        /\ Cardinality(PutIdx(t, ncall[t])) = 1

-----------------------------------------------------------------------------
(* C9 *)

\* C9: created_time changes only inside a save() that has passed the
\* precondition check: on an instance one of whose fields is falsy every
\* save() fails the precondition, so after any sequence of show() and save()
\* calls every field, created_time included, holds the value the instance was
\* constructed with; and an instance no save() has stamped holds them too.
C9_OnlyPassedSaveStamps ==
    \A i \in Insts :
        /\ HoldsFalsy(inst0[i]) => inst[i] = inst0[i]
        /\ lastStamp[i] = NoStamp => inst[i] = inst0[i]

\* Under -O, an instance whose explained_variance is 0 no longer holds the
\* default created_time: a save() has stamped it
C9_Witness ==
    \E i \in Insts :
        /\ Get(inst0[i], FieldNames[8]) = Num(0)
        /\ Get(inst0[i], CreatedTime) = Str(Sentinel)
        /\ Get(inst[i], CreatedTime) # Str(Sentinel)
        /\ \A t \in Threads : pc[t] = "idle"

-----------------------------------------------------------------------------
(* C10 *)

\* C10 as stated: the created_time in the body of every PUT is the value the
\* issuing save() call stamped itself.
C10_BodyCarriesOwnStamp ==
    \A k \in 1..Len(wire) : BodyStamp(wire[k]) = Str(TimeStr(wire[k].clock))

\* C10, amended: the created_time in the body of every PUT is never the
\* default: it is the value last stored in the instance when the body is
\* built, which is the issuing call's own stamp unless another save() of the
\* same instance has stored its stamp in between.
C10_BodyCarriesLatestStamp ==
    \A k \in 1..Len(wire) :
        /\ BodyStamp(wire[k]) # Str(Sentinel)
        /\ BodyStamp(wire[k]) = Str(TimeStr(wire[k].writer.clock))
        /\ wire[k].writer.by # "none"
        /\ (wire[k].writer.by = wire[k].by /\ wire[k].writer.call = wire[k].call) =>
              BodyStamp(wire[k]) = Str(TimeStr(wire[k].clock))

\* A PUT is on the wire whose created_time another save() wrote
C10_Witness ==
    \E k \in 1..Len(wire) :
        /\ wire[k].writer.by # wire[k].by
        /\ BodyStamp(wire[k]) # Str(TimeStr(wire[k].clock))

====
